---- MODULE Spec2Model ----
(***************************************************************************)
(* Model of the tsunami prediction service (src/app.py): the module-level  *)
(* model load, the GET / route and the POST /predict handler.              *)
(*                                                                         *)
(* A request slot is one in-flight HTTP request.  predict_tsunami is an    *)
(* async function with a single suspension point, `await request.json()`   *)
(* (line 55): Receive puts a request at that await, and one of the handler *)
(* branches below runs the rest of the function to its return.             *)
(*                                                                         *)
(* JSON values are tagged records: [num |-> n] is a JSON number and        *)
(* [str |-> s] a JSON string.  Numbers are integers here.  The two label   *)
(* strings and the welcome message are written without their emoji.        *)
(***************************************************************************)
EXTENDS Integers, Sequences, FiniteSets, TLC

\* Number of request slots (requests that may be in flight at once).
MaxRequests == 2

Requests == 1..MaxRequests

(***************************************************************************)
(* TsunamiInput (lines 31-36)                                              *)
(***************************************************************************)

\* The fields in declaration order; .dict() and the DataFrame columns keep it.
FieldOrder == <<"magnitude", "depth", "latitude", "longitude", "dmin">>

FieldNames == {FieldOrder[i] : i \in 1..Len(FieldOrder)}

\* Mutant: magnitude declared ge=0 instead of gt=0.
SchemaMagnitudeGe ==
    [magnitude |-> [ge |-> 0],
     depth     |-> [ge |-> 0],
     latitude  |-> [ge |-> -90, le |-> 90],
     longitude |-> [ge |-> -180, le |-> 180],
     dmin      |-> [ge |-> 0]]

\* Mutant: latitude declared lt=90 instead of le=90.
SchemaLatitudeLt ==
    [magnitude |-> [gt |-> 0],
     depth     |-> [ge |-> 0],
     latitude  |-> [ge |-> -90, lt |-> 90],
     longitude |-> [ge |-> -180, le |-> 180],
     dmin      |-> [ge |-> 0]]

\* The Field(...) constraints of each field.
Schema ==
    [magnitude |-> [gt |-> 0],
     depth     |-> [ge |-> 0],
     latitude  |-> [ge |-> -90, le |-> 90],
     longitude |-> [ge |-> -180, le |-> 180],
     dmin      |-> [ge |-> 0]]

Num(n) == [num |-> n]

Str(s) == [str |-> s]

\* The strings that float() parses, with their values.
NumericStrings == ("7" :> 7)

\* A `float` field accepts a JSON number, or a string that parses as one.
IsFloatLike(v) ==
    \/ "num" \in DOMAIN v
    \/ "str" \in DOMAIN v /\ v.str \in DOMAIN NumericStrings

\* The value the field holds after validation: always a number.
ToFloat(v) == IF "num" \in DOMAIN v THEN v.num ELSE NumericStrings[v.str]

NoError == [ok |-> TRUE]

\* The first constraint of c that x violates, as an error type, or "" if none.
Violated(c, x) ==
    IF "gt" \in DOMAIN c /\ ~(x > c.gt) THEN "gt"
    ELSE IF "ge" \in DOMAIN c /\ ~(x >= c.ge) THEN "ge"
    ELSE IF "lt" \in DOMAIN c /\ ~(x < c.lt) THEN "lt"
    ELSE IF "le" \in DOMAIN c /\ ~(x <= c.le) THEN "le"
    ELSE ""

\* Validation of field k of the keyword arguments obj: an error record, or NoError.
\* `type` abbreviates the library's error type: "missing" (required field absent),
\* "float" (not a number), or the Field keyword of the violated constraint.
FieldError(obj, k) ==
    IF k \notin DOMAIN obj THEN [loc |-> k, type |-> "missing"]
    ELSE IF ~IsFloatLike(obj[k]) THEN [loc |-> k, type |-> "float"]
    ELSE LET v == Violated(Schema[k], ToFloat(obj[k]))
         IN  IF v = "" THEN NoError ELSE [loc |-> k, type |-> v]

\* Mutant: validation stops at the first field in error.
ErrorsFirstOnly(obj) ==
    LET all == [i \in 1..Len(FieldOrder) |-> FieldError(obj, FieldOrder[i])]
        bad == SelectSeq(all, LAMBDA e : "loc" \in DOMAIN e)
    IN  IF bad = <<>> THEN <<>> ELSE <<Head(bad)>>

\* ve.errors(): every field's error, in field order; <<>> when obj validates.
Errors(obj) ==
    LET all == [i \in 1..Len(FieldOrder) |-> FieldError(obj, FieldOrder[i])]
    IN  SelectSeq(all, LAMBDA e : "loc" \in DOMAIN e)

\* input_data.dict() of a validated obj.
InputDict(obj) == [k \in FieldNames |-> ToFloat(obj[k])]

\* The single row of pd.DataFrame([input_data.dict()]), columns in field order.
FeatureRow(d) == [i \in 1..Len(FieldOrder) |-> d[FieldOrder[i]]]

(***************************************************************************)
(* Request bodies                                                          *)
(***************************************************************************)

\* A body request.json() cannot parse.
BadJson == [syntax |-> "invalid"]

\* A body that parses to a JSON value that is not an object.
JsonArray == [syntax |-> "json", type |-> "array"]

JsonObject(f) == [syntax |-> "json", type |-> "object", fields |-> f]

Absent == [absent |-> TRUE]

\* The JSON object holding the fields of c that are not Absent.
Obj(c) == [k \in {n \in FieldNames : c[n] # Absent} |-> c[k]]

MagnitudeValues == {Absent, Str("abc"), Str("7"), Num(-1), Num(0), Num(7)}

DepthValues == {Absent, Num(-1), Num(0)}

LatitudeValues == {Absent, Num(-91), Num(-90), Num(90), Num(91)}

LongitudeValues == {Absent, Num(-181), Num(180), Num(181)}

DminValues == {Absent, Num(-1), Num(0)}

Objects ==
    {Obj([magnitude |-> a, depth |-> b, latitude |-> c, longitude |-> d, dmin |-> e]) :
        a \in MagnitudeValues, b \in DepthValues, c \in LatitudeValues,
        d \in LongitudeValues, e \in DminValues}

\* The bodies a lone client sends.
Bodies == {BadJson, JsonArray} \cup {JsonObject(f) : f \in Objects}

\* The bodies overlapping clients send.
CoreBodies ==
    {BadJson, JsonArray} \cup
    {JsonObject([magnitude |-> a, depth |-> Num(0), latitude |-> c,
                 longitude |-> Num(180), dmin |-> Num(0)]) :
        a \in {Num(0), Num(7)}, c \in {Num(-90), Num(90)}}

(***************************************************************************)
(* The model artifact (lines 24-28)                                        *)
(***************************************************************************)

\* The rows a validated body can produce.
FeatureRows == {FeatureRow(InputDict(f)) : f \in {g \in Objects : Errors(g) = <<>>}}

\* What model.predict(new_data)[0] does for a row: return a value, or raise.
Outcomes == {[ret |-> 0], [ret |-> 1], [ret |-> 2], [exc |-> "PredictError"]}

\* A loaded artifact is an opaque, fixed function of the row.
Models == [FeatureRows -> Outcomes]

\* model = None: joblib.load raised.
None == [row \in {} |-> row]

(***************************************************************************)
(* State                                                                   *)
(***************************************************************************)
VARIABLES
    model,        \* the module global `model`
    pc,           \* per slot: "idle", "awaiting" (at await request.json()), "done"
    request,      \* per slot: the request received
    response,     \* per slot: the object the route returned
    predictCalls, \* per slot: how often the handler called model.predict
    afterFailure  \* per slot: a predict call had already raised when it arrived

vars == <<model, pc, request, response, predictCalls, afterFailure>>

NoRequest == [path |-> "none"]

NoResponse == [k \in {} |-> k]

Init ==
    /\ model \in Models \cup {None}
    /\ pc = [r \in Requests |-> "idle"]
    /\ request = [r \in Requests |-> NoRequest]
    /\ response = [r \in Requests |-> NoResponse]
    /\ predictCalls = [r \in Requests |-> 0]
    /\ afterFailure = [r \in Requests |-> FALSE]

(***************************************************************************)
(* GET / (lines 39-44)                                                     *)
(***************************************************************************)

Welcome ==
    [message |-> "Welcome to Tsunami Prediction API",
     docs    |-> "Visit /docs to test the API"]

\* home(): no await, no state read; the route returns at once.
Home(r) ==
    /\ pc[r] = "idle"
    /\ pc' = [pc EXCEPT ![r] = "done"]
    /\ request' = [request EXCEPT ![r] = [path |-> "/"]]
    /\ response' = [response EXCEPT ![r] = Welcome]
    /\ UNCHANGED <<model, predictCalls, afterFailure>>

(***************************************************************************)
(* POST /predict (lines 47-83)                                             *)
(***************************************************************************)

Warning == "Tsunami Warning!"

NoTsunami == "No Tsunami Expected"

\* Whether a slot's response reports a model.predict call that raised.
PredictFailed(q) ==
    /\ pc[q] = "done"
    /\ predictCalls[q] > 0
    /\ "error" \in DOMAIN response[q]

\* The request arrives and the handler runs up to `await request.json()`.
Receive(r, b) ==
    /\ pc[r] = "idle"
    /\ pc' = [pc EXCEPT ![r] = "awaiting"]
    /\ request' = [request EXCEPT ![r] = [path |-> "/predict", body |-> b]]
    /\ afterFailure' = [afterFailure EXCEPT ![r] = \E q \in Requests : PredictFailed(q)]
    /\ UNCHANGED <<model, response, predictCalls>>

\* The handler returns `resp` after `calls` calls of model.predict.
Return(r, resp, calls) ==
    /\ pc' = [pc EXCEPT ![r] = "done"]
    /\ response' = [response EXCEPT ![r] = resp]
    /\ predictCalls' = [predictCalls EXCEPT ![r] = calls]
    /\ UNCHANGED <<model, request, afterFailure>>

Body(r) == request[r].body

IsJson(b) == b.syntax = "json"

IsObject(b) == IsJson(b) /\ b.type = "object"

\* TsunamiInput(**body) succeeds.
Validates(b) == IsObject(b) /\ Errors(b.fields) = <<>>

\* Mutant: input_data is a module global that the oldest awaiting valid request owns.
input_data_shared(r) ==
    LET q == CHOOSE q \in Requests : pc[q] = "awaiting" /\ Validates(Body(q))
    IN  InputDict(Body(q).fields)

\* The handler's local input_data.dict() (line 62).
input_data(r) == InputDict(Body(r).fields)

\* model.predict(new_data)[0] (line 69).
Predict(r) == model[FeatureRow(input_data(r))]

\* Mutant: any non-zero prediction is a warning.
LabelNonZero(prediction) == IF prediction # 0 THEN Warning ELSE NoTsunami

\* Line 70.
Label(prediction) == IF prediction = 1 THEN Warning ELSE NoTsunami

InternalError(details) == [error |-> "Internal server error", details |-> details]

\* Line 55 raises: the body is not JSON.  Caught at line 81.
JSONDecodeError(r) ==
    /\ pc[r] = "awaiting"
    /\ ~IsJson(Body(r))
    /\ Return(r, InternalError("JSONDecodeError"), 0)

\* Mutant: line 81 catches ValueError only, so the TypeError leaves the handler.
NotAMappingEscapes(r) ==
    /\ pc[r] = "awaiting"
    /\ IsJson(Body(r)) /\ ~IsObject(Body(r))
    /\ Return(r, NoResponse, 0)

\* Line 59 raises TypeError: `**body` needs a mapping.  Caught at line 81.
NotAMapping(r) ==
    /\ pc[r] = "awaiting"
    /\ IsJson(Body(r)) /\ ~IsObject(Body(r))
    /\ Return(r, InternalError("TypeError"), 0)

\* Line 59 raises ValidationError.  Caught at line 77.
ValidationFailed(r) ==
    /\ pc[r] = "awaiting"
    /\ IsObject(Body(r))
    /\ Errors(Body(r).fields) # <<>>
    /\ Return(r, [error |-> "Invalid input format", details |-> Errors(Body(r).fields)], 0)

\* Mutant: no guard, so None.predict raises AttributeError, caught at line 81.
ModelNotLoadedUnguarded(r) ==
    /\ pc[r] = "awaiting"
    /\ Validates(Body(r))
    /\ model = None
    /\ Return(r, InternalError("AttributeError"), 1)

\* Mutant: the handler tries joblib.load again when it finds no model.
ModelNotLoadedReload(r) ==
    /\ pc[r] = "awaiting"
    /\ Validates(Body(r))
    /\ model = None
    /\ model' \in Models \cup {None}
    /\ pc' = [pc EXCEPT ![r] = "done"]
    /\ response' = [response EXCEPT ![r] = [error |-> "Model not loaded on server."]]
    /\ UNCHANGED <<request, predictCalls, afterFailure>>

\* Lines 65-66.
ModelNotLoaded(r) ==
    /\ pc[r] = "awaiting"
    /\ Validates(Body(r))
    /\ model = None
    /\ Return(r, [error |-> "Model not loaded on server."], 0)

\* Mutant: the handler calls predict a second time before giving up.
PredictRaisedRetry(r) ==
    /\ pc[r] = "awaiting"
    /\ Validates(Body(r))
    /\ model # None
    /\ "exc" \in DOMAIN Predict(r)
    /\ Return(r, InternalError(Predict(r).exc), 2)

\* Line 69 raises.  Caught at line 81.
PredictRaised(r) ==
    /\ pc[r] = "awaiting"
    /\ Validates(Body(r))
    /\ model # None
    /\ "exc" \in DOMAIN Predict(r)
    /\ Return(r, InternalError(Predict(r).exc), 1)

\* Lines 69-75.
PredictReturned(r) ==
    /\ pc[r] = "awaiting"
    /\ Validates(Body(r))
    /\ model # None
    /\ "ret" \in DOMAIN Predict(r)
    /\ Return(r, [input |-> input_data(r), prediction |-> Label(Predict(r).ret)], 1)

\* The rest of predict_tsunami after the await.
Handle(r) ==
    \/ JSONDecodeError(r)
    \/ NotAMapping(r)
    \/ ValidationFailed(r)
    \/ ModelNotLoaded(r)
    \/ PredictRaised(r)
    \/ PredictReturned(r)

\* The response is sent and the request is over.
Deliver(r) ==
    /\ pc[r] = "done"
    /\ pc' = [pc EXCEPT ![r] = "idle"]
    /\ request' = [request EXCEPT ![r] = NoRequest]
    /\ response' = [response EXCEPT ![r] = NoResponse]
    /\ predictCalls' = [predictCalls EXCEPT ![r] = 0]
    /\ afterFailure' = [afterFailure EXCEPT ![r] = FALSE]
    /\ UNCHANGED model

(***************************************************************************)
(* Specifications                                                          *)
(***************************************************************************)

\* A client sends slot r a POST /predict with a body out of S.
Post(r, S) == pc[r] = "idle" /\ \E b \in S : Receive(r, b)

\* Overlapping clients: any slot may receive a request at any time.
Next ==
    \E r \in Requests :
        \/ Post(r, CoreBodies)
        \/ Home(r)
        \/ Handle(r)
        \/ Deliver(r)

Spec == Init /\ [][Next]_vars

\* No other request is in flight or undelivered.
Alone(r) == \A q \in Requests \ {r} : pc[q] = "idle"

\* A lone client: it sends one request at a time, with any body.
NextSerial ==
    \E r \in Requests :
        \/ Alone(r) /\ Post(r, Bodies)
        \/ Alone(r) /\ Home(r)
        \/ Handle(r)
        \/ Deliver(r)

SpecSerial == Init /\ [][NextSerial]_vars

(***************************************************************************)
(* Properties                                                              *)
(***************************************************************************)

\* Slot r holds the response of a POST /predict.
Predicted(r) == pc[r] = "done" /\ request[r].path = "/predict"

\* The bound of field k as the API documents it, on a number n.
InBound(k, n) ==
    CASE k = "magnitude" -> n > 0
      [] k = "depth"     -> n >= 0
      [] k = "latitude"  -> n >= -90 /\ n <= 90
      [] k = "longitude" -> n >= -180 /\ n <= 180
      [] k = "dmin"      -> n >= 0

\* The body is a JSON object whose five fields are numbers within their bounds.
SuppliedValid(b) ==
    /\ IsObject(b)
    /\ DOMAIN b.fields = FieldNames
    /\ \A k \in FieldNames : "num" \in DOMAIN b.fields[k] /\ InBound(k, b.fields[k]["num"])

\* The body is a JSON object with a field missing or a number out of its bound.
SuppliedInvalid(b) ==
    /\ IsObject(b)
    /\ \E k \in FieldNames :
          \/ k \notin DOMAIN b.fields
          \/ "num" \in DOMAIN b.fields[k] /\ ~InBound(k, b.fields[k]["num"])

\* The five supplied numbers in the order magnitude, depth, latitude, longitude, dmin.
SuppliedRow(b) ==
    <<b.fields["magnitude"]["num"], b.fields["depth"]["num"], b.fields["latitude"]["num"],
      b.fields["longitude"]["num"], b.fields["dmin"]["num"]>>

\* The loaded model raises on this row.
Raises(row) == row \in DOMAIN model /\ "exc" \in DOMAIN model[row]

IsSuccess(resp) == DOMAIN resp = {"input", "prediction"}

IsError(resp) == "error" \in DOMAIN resp /\ DOMAIN resp \cap {"input", "prediction"} = {}

\* C1: a POST /predict whose body is a JSON object of five in-bound numbers,
\* with the model loaded and its predict call returning, gets a response with
\* no "error" key, "input" holding exactly the five supplied values and
\* "prediction" one of the two labels.
C1_ValidInputEchoed ==
    \A r \in Requests :
        (/\ Predicted(r)
         /\ SuppliedValid(Body(r))
         /\ model # None
         /\ ~Raises(SuppliedRow(Body(r))))
        => /\ IsSuccess(response[r])
           /\ DOMAIN response[r].input = FieldNames
           /\ \A k \in FieldNames : response[r].input[k] = Body(r).fields[k]["num"]
           /\ response[r].prediction \in {Warning, NoTsunami}

C1_Witness ==
    \E r \in Requests :
        /\ Predicted(r)
        /\ SuppliedValid(Body(r))
        /\ Body(r).fields["latitude"] = Num(90)
        /\ IsSuccess(response[r])

ModelNotLoadedResponse == [error |-> "Model not loaded on server."]

\* C3 as stated: with the model not loaded, every POST /predict, whatever its
\* body, returns exactly {"error": "Model not loaded on server."}.
C3_AlwaysModelNotLoaded ==
    \A r \in Requests :
        (Predicted(r) /\ model = None) => response[r] = ModelNotLoadedResponse

\* C3 amended: with the model not loaded, a POST /predict whose body is a
\* JSON object of five in-bound numbers returns exactly
\* {"error": "Model not loaded on server."}; a JSON object with a missing or
\* out-of-bound field gets "Invalid input format", and a body that is not JSON
\* or not a JSON object gets "Internal server error"; predict is never called.
C3_ModelNotLoadedAfterValidation ==
    \A r \in Requests :
        (Predicted(r) /\ model = None)
        => /\ SuppliedValid(Body(r)) => response[r] = ModelNotLoadedResponse
           /\ SuppliedInvalid(Body(r)) => response[r].error = "Invalid input format"
           /\ ~IsObject(Body(r)) => response[r].error = "Internal server error"
           /\ IsError(response[r])
           /\ predictCalls[r] = 0

C3_Witness ==
    \E r \in Requests :
        /\ Predicted(r)
        /\ model = None
        /\ SuppliedValid(Body(r))
        /\ response[r] = ModelNotLoadedResponse

\* C4: every POST /predict ends with one response object, whatever the body
\* and the model: a request at the await can always run to its return, and
\* the object returned has an "error" key and neither "input" nor
\* "prediction", or has exactly "input" and "prediction".
C4_AlwaysOneWellFormedResponse ==
    \A r \in Requests :
        /\ pc[r] = "awaiting" => ENABLED Handle(r)
        /\ Predicted(r) => (IsError(response[r]) \/ IsSuccess(response[r]))
        /\ Predicted(r) => ~(IsError(response[r]) /\ IsSuccess(response[r]))

C4_Witness ==
    \E r \in Requests :
        /\ Predicted(r)
        /\ Body(r) = JsonArray
        /\ IsError(response[r])

\* C5 as stated: a body that is not JSON never gets "Invalid input format",
\* and a body that parses as JSON but fails the schema never gets the error
\* an unparseable body gets ("Internal server error").
C5_ParseFailureDistinct ==
    \A r \in Requests :
        Predicted(r)
        => /\ ~IsJson(Body(r)) => response[r].error # "Invalid input format"
           /\ (IsJson(Body(r)) /\ ~Validates(Body(r)))
                 => response[r].error # "Internal server error"

\* The violated constraint the API documents for an out-of-bound number n of field k.
ViolatedBound(k, n) ==
    CASE k = "magnitude" -> "gt"
      [] k = "depth"     -> "ge"
      [] k = "latitude"  -> IF n < -90 THEN "ge" ELSE "le"
      [] k = "longitude" -> IF n < -180 THEN "ge" ELSE "le"
      [] k = "dmin"      -> "ge"

\* The records of `details` about field k.
RecordsOf(details, k) == {i \in 1..Len(details) : details[i].loc = k}

\* C6: a validation-failure response reports every offending field at once:
\* "details" has exactly one record for each field that is missing (type
\* "missing") or out of bound (type: the violated constraint) or not a
\* number, and none for a field that is valid.
C6_AllViolationsReported ==
    \A r \in Requests :
        (/\ Predicted(r)
         /\ IsObject(Body(r))
         /\ "error" \in DOMAIN response[r]
         /\ response[r].error = "Invalid input format")
        => LET f == Body(r).fields
               details == response[r].details
           IN  \A k \in FieldNames :
                  LET recs == RecordsOf(details, k)
                  IN  IF k \notin DOMAIN f
                      THEN /\ Cardinality(recs) = 1
                           /\ \A i \in recs : details[i].type = "missing"
                      ELSE IF "num" \in DOMAIN f[k]
                      THEN IF InBound(k, f[k]["num"])
                           THEN recs = {}
                           ELSE /\ Cardinality(recs) = 1
                                /\ \A i \in recs : details[i].type = ViolatedBound(k, f[k]["num"])
                      ELSE IF f[k] = Str("7")
                      THEN recs = {}
                      ELSE Cardinality(recs) = 1

C6_Witness ==
    \E r \in Requests :
        /\ Predicted(r)
        /\ IsObject(Body(r))
        /\ DOMAIN Body(r).fields = FieldNames \ {"dmin"}
        /\ Body(r).fields["magnitude"] = Num(7)
        /\ Body(r).fields["depth"] = Num(-1)
        /\ Body(r).fields["latitude"] = Num(91)
        /\ Body(r).fields["longitude"] = Num(180)
        /\ Len(response[r].details) = 3

\* C7: the model availability decided at process start never changes: no
\* step of any request, successful or failing, changes `model`.
C7_ModelNeverChanges == [][model' = model]_vars

C7_Witness ==
    /\ model = None
    /\ \E q, r \in Requests :
          /\ pc[q] = "done" /\ response[q] = Welcome
          /\ Predicted(r) /\ response[r] = ModelNotLoadedResponse

\* C8: identical POST /predict requests get identical responses, whatever
\* other requests overlap with them: two slots holding responses to the same
\* body hold the same response.
C8_SameBodySameResponse ==
    \A q, r \in Requests :
        (Predicted(q) /\ Predicted(r) /\ Body(q) = Body(r))
        => response[q] = response[r]

C8_Witness ==
    \E q, r \in Requests :
        /\ q # r
        /\ Predicted(q) /\ Predicted(r)
        /\ Body(q) = Body(r)
        /\ IsSuccess(response[q])
        /\ response[q].prediction = Warning

\* C9: in a successful response the label is the warning exactly when the
\* model's output for the row <<magnitude, depth, latitude, longitude, dmin>>
\* of the validated input is 1; any other output, 2 included, gives the
\* no-tsunami label.
C9_WarningIffPredictionIsOne ==
    \A r \in Requests :
        (Predicted(r) /\ IsSuccess(response[r]))
        => LET inp == response[r].input
               row == <<inp["magnitude"], inp["depth"], inp["latitude"], inp["longitude"], inp["dmin"]>>
           IN  /\ response[r].prediction = Warning <=> model[row] = [ret |-> 1]
               /\ response[r].prediction # Warning => response[r].prediction = NoTsunami

C9_Witness ==
    \E r \in Requests :
        /\ Predicted(r)
        /\ IsSuccess(response[r])
        /\ model[FeatureRow(response[r].input)] = [ret |-> 2]
        /\ response[r].prediction = NoTsunami

\* C10: when model.predict raises for a valid request, it was called once
\* and the response is {"error": "Internal server error", "details": <the
\* message>}; a valid request whose predict call returns gets a success
\* response, also when it arrives after such a failure.
C10_PredictFailureIsPerRequest ==
    \A r \in Requests :
        (Predicted(r) /\ SuppliedValid(Body(r)) /\ model # None)
        => IF Raises(SuppliedRow(Body(r)))
           THEN /\ response[r] = [error |-> "Internal server error",
                                  details |-> model[SuppliedRow(Body(r))].exc]
                /\ predictCalls[r] = 1
           ELSE /\ IsSuccess(response[r])
                /\ predictCalls[r] = 1

C10_Witness ==
    \E r \in Requests :
        /\ Predicted(r)
        /\ afterFailure[r]
        /\ IsSuccess(response[r])

====
